---- MODULE Spec2Model ----
(***************************************************************************)
(* DockaCord: a Docker event watcher that forwards selected container     *)
(* events to a Discord webhook (src/main.go).                              *)
(*                                                                         *)
(* The model follows main() through its startup steps, then the goroutine  *)
(* running handleDockerEvents: one select over the runtime's event         *)
(* channel, its error channel and the signal channel, and, per container   *)
(* event, handleEvent -> getEventLevel -> notifyDiscord with its blocking  *)
(* http.Post and the deferred close of the response body.                  *)
(*                                                                         *)
(* Go's select is modelled as the language defines it: when several cases  *)
(* are ready one is chosen nondeterministically; when none is ready the    *)
(* goroutine parks, and the next send (or close) on one of the channels    *)
(* hands its value directly to the parked goroutine, which fixes the case  *)
(* the select returns with.  Receiving from a closed channel is always     *)
(* ready and yields the zero value.                                        *)
(***************************************************************************)
EXTENDS Naturals, Sequences, FiniteSets

\* ------------------------------------------------------------------ bounds

\* Events the runtime emits in one run.
MaxEvents == 2
\* Error reports the runtime sends on its error channel in one run.
MaxErrs == 1
\* Interrupt / terminate signals raised in one run.
MaxSignals == 1

\* --------------------------------------------------------------- constants

ContainerEventType == "container"
EventTypes == {ContainerEventType, "network"}
ActionNames == {"die", "stop", "start"}
Signals == {"SIGINT", "SIGTERM"}

StatusOK == 200
StatusNoContent == 204
\* Status codes the webhook endpoint answers with.
Statuses == {StatusOK, StatusNoContent, 400, 500}

defaultConfig ==
    [Webhook |-> "discord-webhook-url",
     Error   |-> <<"die">>,
     Warning |-> <<"stop">>,
     Info    |-> <<"start">>]

\* Configs a config.json can hold: the default, the default without a webhook,
\* and one whose lists overlap and repeat ("die" in all three, "stop" in two,
\* "start" in none).
Configs ==
    {defaultConfig,
     [defaultConfig EXCEPT !.Webhook = ""],
     [Webhook |-> "discord-webhook-url",
      Error   |-> <<"die", "die">>,
      Warning |-> <<"die", "stop">>,
      Info    |-> <<"stop", "die">>]}

\* The zero value of *Config before loadConfig has returned.
NilConfig == [Webhook |-> "", Error |-> <<>>, Warning |-> <<>>, Info |-> <<>>]

Events ==
    [Type : EventTypes, Action : ActionNames, Time : {1700000000}, Name : {"web-1"}]

NoWake == [src |-> "none", val |-> ""]
NoPayload ==
    [title |-> <<>>, name |-> "", action |-> "", time |-> 0, color |-> 0,
     avatar |-> ""]
NoResponse == [StatusCode |-> 0, Body |-> "none"]
NoEvent == [Type |-> "", Action |-> "", Time |-> 0, Name |-> ""]

\* ------------------------------------------------------------------- state

VARIABLES
    file,          \* config.json in the working directory
    mainPc,        \* main(): the statement it is at
    mainErr,       \* main's err after loadConfig ("" is nil)
    subscription,  \* "none" | "ok" | "failed": what cli.Events set up
    procState,     \* "alive" | "exited"
    exitCode,      \* the exit status once procState = "exited"
    cfg,           \* the *Config loadConfig returned
    errorActions,  \* keys of the map errorActions
    warnActions,   \* keys of the map warnActions
    infoActions,   \* keys of the map infoActions
    msgs,          \* events emitted by the runtime, not yet received
    errs,          \* the error channel's buffer
    errsClosed,    \* the runtime has closed the error channel
    signalChan,    \* the signal channel's buffer (capacity 1)
    loop,          \* handleDockerEvents: where the goroutine is
    wake,          \* the value handed to the parked goroutine
    event,         \* the event the loop received last
    level,         \* handleEvent's level for it
    payload,       \* the payload notifyDiscord built last
    resp,          \* the http.Response notifyDiscord holds
    logs,          \* what the logger wrote since the select last returned
    posts,         \* http.Post calls made
    responses,     \* http.Post calls that returned a response
    postErrs,      \* http.Post calls that returned an error
    closes,        \* Body.Close calls made
    consumed,      \* events received by the loop
    eligible,      \* those of type container, with a level, under a webhook
    nEvents,       \* events the runtime emitted
    nErrs,         \* error reports the runtime sent
    nSignals,      \* signals raised
    sigRecv        \* signals received by the loop

vars ==
    <<file, mainErr, subscription, mainPc, procState, exitCode, cfg, errorActions, warnActions, infoActions,
      msgs, errs, errsClosed, signalChan, loop, wake, event, level, payload,
      resp, logs, posts, responses, postErrs, closes, consumed, eligible,
      nEvents, nErrs, nSignals, sigRecv>>

bootVars == <<file, mainErr, subscription>>
mainVars == <<bootVars, mainPc, procState, exitCode, cfg>>
mapVars == <<errorActions, warnActions, infoActions>>
chanVars == <<msgs, errs, errsClosed, signalChan>>
envCount == <<nEvents, nErrs, nSignals>>
histVars == <<consumed, eligible>>
httpVars == <<level, payload, resp, posts, responses, postErrs, closes>>

Range(s) == {s[i] : i \in DOMAIN s}

\* ----------------------------------------------------------------- logging

\* One record of the standard logger: the message, its text argument (an
\* action, a level, a signal) and its numeric argument (a status code).
LogLine(msg, text, code) == [msg |-> msg, text |-> text, code |-> code]

Printf(msg, text, code) == logs' = Append(logs, LogLine(msg, text, code))

\* ------------------------------------------------------------- config file

\* json.MarshalIndent of a Config: the object under its json tags.
Marshal(c) ==
    [webhook |-> c.Webhook, error |-> c.Error, warning |-> c.Warning,
     info |-> c.Info]

\* json.Unmarshal of such an object into a Config.
Unmarshal(j) ==
    [Webhook |-> j.webhook, Error |-> j.error, Warning |-> j.warning,
     Info |-> j.info]

\* config.json: absent, holding a JSON object, or holding text that is not
\* JSON (json is then of no account).
AbsentFile == [kind |-> "absent", json |-> Marshal(NilConfig)]
MalformedFile == [kind |-> "malformed", json |-> Marshal(NilConfig)]
JsonFile(c) == [kind |-> "json", json |-> Marshal(c)]

\* What the file system does to the calls of loadConfig: nothing wrong, os.Stat
\* fails (other than not-exist), os.ReadFile fails, os.WriteFile fails before
\* it created the file, os.WriteFile fails after it created it.
IOOutcomes == {"ok", "statErr", "readErr", "createErr", "writeErr"}

\* As StatNotExist, but a file that is not JSON counts as missing too.
StatNotExist_OrMalformed(f) == f.kind \in {"absent", "malformed"}

\* os.IsNotExist(err) for the err of os.Stat(filename).
StatNotExist(f) == f.kind = "absent"

\* loadConfig(filename) on file f under I/O outcome io: the config and error
\* it returns, the file it leaves and the lines it logs.
loadConfig(f, io) ==
    LET notFound == <<LogLine("Config file not found, creating default config.json", "", 0)>> IN
    IF io = "statErr"
    THEN [cfg |-> NilConfig, err |-> "cannot stat config file", file |-> f,
          logs |-> <<>>]
    ELSE IF StatNotExist(f)
    THEN IF io = "createErr"
         THEN [cfg |-> NilConfig, err |-> "failed to create default config",
               file |-> f, logs |-> notFound]
         ELSE IF io = "writeErr"
         THEN [cfg |-> NilConfig, err |-> "failed to create default config",
               file |-> MalformedFile, logs |-> notFound]
         ELSE [cfg |-> defaultConfig, err |-> "",
               file |-> [kind |-> "json", json |-> Marshal(defaultConfig)],
               logs |-> notFound]
    ELSE IF io = "readErr"
    THEN [cfg |-> NilConfig, err |-> "cannot read config file", file |-> f,
          logs |-> <<>>]
    ELSE IF f.kind = "malformed"
    THEN [cfg |-> NilConfig, err |-> "invalid JSON in config file", file |-> f,
          logs |-> <<>>]
    ELSE [cfg |-> Unmarshal(f.json), err |-> "", file |-> f, logs |-> <<>>]

\* config.json when the program starts: absent, not JSON, or one of Configs
\* (the absent file gives the default).
StartFiles ==
    {AbsentFile, MalformedFile} \cup {JsonFile(c) : c \in Configs \ {defaultConfig}}

Init ==
    /\ file \in StartFiles
    /\ mainErr = ""
    /\ subscription = "none"
    /\ mainPc = "loadConfig"
    /\ procState = "alive"
    /\ exitCode = 0
    /\ cfg = NilConfig
    /\ errorActions = {}
    /\ warnActions = {}
    /\ infoActions = {}
    /\ msgs = <<>>
    /\ errs = <<>>
    /\ errsClosed = FALSE
    /\ signalChan = <<>>
    /\ loop = "notStarted"
    /\ wake = NoWake
    /\ event = NoEvent
    /\ level = ""
    /\ payload = NoPayload
    /\ resp = NoResponse
    /\ logs = <<>>
    /\ posts = 0
    /\ responses = 0
    /\ postErrs = 0
    /\ closes = 0
    /\ consumed = 0
    /\ eligible = 0
    /\ nEvents = 0
    /\ nErrs = 0
    /\ nSignals = 0
    /\ sigRecv = 0

\* -------------------------------------------------------------- classifier

\* As populateActionMaps, but the warning list goes into the error map too.
populateActionMaps_WarnIntoError(c) ==
    /\ errorActions' = errorActions \cup Range(c.Error) \cup Range(c.Warning)
    /\ warnActions' = warnActions \cup Range(c.Warning)
    /\ infoActions' = infoActions \cup Range(c.Info)

\* As populateActionMaps, but the info list is left out.
populateActionMaps_NoInfo(c) ==
    /\ errorActions' = errorActions \cup Range(c.Error)
    /\ warnActions' = warnActions \cup Range(c.Warning)
    /\ infoActions' = infoActions

\* populateActionMaps: every element of each list becomes a key of its map.
populateActionMaps(c) ==
    /\ errorActions' = errorActions \cup Range(c.Error)
    /\ warnActions' = warnActions \cup Range(c.Warning)
    /\ infoActions' = infoActions \cup Range(c.Info)

\* getEventLevel testing the warning map before the error map.
getEventLevel_WarningFirst(action) ==
    IF action \in warnActions THEN "warning"
    ELSE IF action \in errorActions THEN "error"
    ELSE IF action \in infoActions THEN "info"
    ELSE ""

\* getEventLevel: error before warning before info, "" when in no map.
getEventLevel(action) ==
    IF action \in errorActions THEN "error"
    ELSE IF action \in warnActions THEN "warning"
    ELSE IF action \in infoActions THEN "info"
    ELSE ""

\* ---------------------------------------------------------------- renderer

\* As getColor, with the colours of warning and error exchanged.
getColor_Swapped(lv) ==
    CASE lv = "warning" -> 16711680
      [] lv = "error" -> 16776960
      [] OTHER -> 3066993

\* getColor: the embed colour of a level.
getColor(lv) ==
    CASE lv = "warning" -> 16776960
      [] lv = "error" -> 16711680
      [] OTHER -> 3066993

\* strings.ToUpper on the level names.
ToUpper(lv) ==
    CASE lv = "error" -> "ERROR"
      [] lv = "warning" -> "WARNING"
      [] lv = "info" -> "INFO"
      [] OTHER -> lv

\* The avatar_url and icon_url of the payload.
AvatarURL ==
    "https://raw.githubusercontent.com/Lyzev/DockaCord/refs/heads/master/assets/docker-mark-blue.png"

\* The payload notifyDiscord builds: the title's two parts, the description's
\* container name, action and epoch, and the colour.
Payload(ev, lv) ==
    [title  |-> <<"Docker Event Notification - ", ToUpper(lv)>>,
     name   |-> ev.Name,
     action |-> ev.Action,
     time   |-> ev.Time,
     color  |-> getColor(lv),
     avatar |-> AvatarURL]

\* -------------------------------------------------------------------- main

Alive == procState = "alive"

\* log.Fatalf: log, then os.Exit(1).
Fatalf(msg) ==
    /\ Printf(msg, "", 0)
    /\ procState' = "exited"
    /\ exitCode' = 1
    /\ mainPc' = "exited"

\* cfg, err := loadConfig("config.json")
MainCallLoadConfig ==
    /\ Alive /\ mainPc = "loadConfig"
    /\ \E io \in IOOutcomes :
         LET r == loadConfig(file, io) IN
         /\ cfg' = r.cfg
         /\ mainErr' = r.err
         /\ file' = r.file
         /\ logs' = logs \o r.logs
    /\ mainPc' = "checkConfig"
    /\ UNCHANGED <<subscription, procState, exitCode, mapVars, chanVars, loop,
                   wake, event, httpVars, histVars, envCount, sigRecv>>

\* if err != nil: not taken
MainLoadConfig ==
    /\ Alive /\ mainPc = "checkConfig"
    /\ mainErr = ""
    /\ mainPc' = "populate"
    /\ UNCHANGED <<bootVars, procState, exitCode, cfg, mapVars, chanVars, loop,
                   wake, event, httpVars, logs, histVars, envCount, sigRecv>>

\* As MainLoadConfigFails, but logging with Printf and going on.
MainLoadConfigFails_Continues ==
    /\ Alive /\ mainPc = "checkConfig"
    /\ mainErr # ""
    /\ Printf("Failed to load config", "", 0)
    /\ mainPc' = "populate"
    /\ UNCHANGED <<bootVars, procState, exitCode, cfg, mapVars, chanVars, loop,
                   wake, event, httpVars, histVars, envCount, sigRecv>>

\* if err != nil { log.Fatalf("Failed to load config: %v", err) }
MainLoadConfigFails ==
    /\ Alive /\ mainPc = "checkConfig"
    /\ mainErr # ""
    /\ Fatalf("Failed to load config")
    /\ UNCHANGED <<bootVars, cfg, mapVars, chanVars, loop, wake, event,
                   httpVars, histVars, envCount, sigRecv>>

\* populateActionMaps(cfg)
MainPopulate ==
    /\ Alive /\ mainPc = "populate"
    /\ populateActionMaps(cfg)
    /\ mainPc' = "newClient"
    /\ UNCHANGED <<bootVars, procState, exitCode, cfg, chanVars, loop, wake, event,
                   httpVars, logs, histVars, envCount, sigRecv>>

\* cli, err := client.NewClientWithOpts(...), err == nil
MainNewClient ==
    /\ Alive /\ mainPc = "newClient"
    /\ Printf("Docker client created", "", 0)
    /\ mainPc' = "events"
    /\ UNCHANGED <<bootVars, procState, exitCode, cfg, mapVars, chanVars, loop, wake,
                   event, httpVars, histVars, envCount, sigRecv>>

\* cli, err := client.NewClientWithOpts(...), err != nil
MainNewClientFails ==
    /\ Alive /\ mainPc = "newClient"
    /\ Fatalf("Failed to create Docker client")
    /\ UNCHANGED <<bootVars, cfg, mapVars, chanVars, loop, wake, event, httpVars,
                   histVars, envCount, sigRecv>>

\* msgs, errs := cli.Events(ctx, ...): the two channels exist from here on.
MainEvents ==
    /\ Alive /\ mainPc = "events"
    /\ subscription' = "ok"
    /\ mainPc' = "notify"
    /\ UNCHANGED <<file, mainErr, procState, exitCode, cfg, mapVars, chanVars,
                   loop, wake, event, httpVars, logs, histVars, envCount,
                   sigRecv>>

\* msgs, errs := cli.Events(ctx, ...) when the subscription cannot be set up:
\* Events returns the two channels all the same (it has no error result); the
\* failure is sent on errs, which is then closed, and no event will come.
MainEventsFails ==
    /\ Alive /\ mainPc = "events"
    /\ subscription' = "failed"
    /\ errs' = <<"err">>
    /\ errsClosed' = TRUE
    /\ nErrs' = nErrs + 1
    /\ mainPc' = "notify"
    /\ UNCHANGED <<file, mainErr, procState, exitCode, cfg, mapVars, msgs,
                   signalChan, loop, wake, event, httpVars, logs, histVars,
                   nEvents, nSignals, sigRecv>>

\* signalChan := make(chan os.Signal, 1); signal.Notify(signalChan, ...)
MainNotify ==
    /\ Alive /\ mainPc = "notify"
    /\ mainPc' = "go"
    /\ UNCHANGED <<bootVars, procState, exitCode, cfg, mapVars, chanVars, loop, wake,
                   event, httpVars, logs, histVars, envCount, sigRecv>>

\* go handleDockerEvents(...): the goroutine exists from here on and runs
\* concurrently with the rest of main.
MainGo ==
    /\ Alive /\ mainPc = "go"
    /\ loop' = "select"
    /\ mainPc' = "listen"
    /\ UNCHANGED <<bootVars, procState, exitCode, cfg, mapVars, chanVars, wake,
                   event, httpVars, logs, histVars, envCount, sigRecv>>

\* log.Println("Listening for Docker container events and signals..."), then
\* select {}: the empty select changes nothing and main blocks in it for
\* good, so main has no step after this one.
MainListen ==
    /\ Alive /\ mainPc = "listen"
    /\ Printf("Listening for Docker container events and signals...", "", 0)
    /\ mainPc' = "blocked"
    /\ UNCHANGED <<bootVars, procState, exitCode, cfg, mapVars, chanVars, loop,
                   wake, event, httpVars, histVars, envCount, sigRecv>>

\* ------------------------------------------------------------- environment

\* The goroutine is parked in the select and nothing has been handed to it.
Parked == loop = "parked" /\ wake.src = "none"

\* The channels of cli.Events exist once main has called it.
Subscribed == Alive /\ subscription = "ok"

\* signal.Notify has registered signalChan.
Notified == Alive /\ mainPc \in {"go", "listen", "blocked"}

\* The runtime emits an event: handed to the parked loop, else it waits to be
\* received (the sender blocks on the unbuffered channel).
RuntimeEvent ==
    /\ Subscribed /\ nEvents < MaxEvents
    /\ \E ev \in Events :
         IF Parked
         THEN wake' = [src |-> "msg", val |-> ev] /\ msgs' = msgs
         ELSE msgs' = Append(msgs, ev) /\ wake' = wake
    /\ nEvents' = nEvents + 1
    /\ UNCHANGED <<mainVars, mapVars, errs, errsClosed, signalChan, loop, event,
                   httpVars, logs, histVars, nErrs, nSignals, sigRecv>>

\* The runtime sends an error report on the error channel.
RuntimeError ==
    /\ Subscribed /\ nErrs < MaxErrs /\ ~errsClosed /\ errs = <<>>
    /\ IF Parked
       THEN wake' = [src |-> "err", val |-> "err"] /\ errs' = errs
       ELSE errs' = Append(errs, "err") /\ wake' = wake
    /\ nErrs' = nErrs + 1
    /\ UNCHANGED <<mainVars, mapVars, msgs, errsClosed, signalChan, loop, event,
                   httpVars, logs, histVars, nEvents, nSignals, sigRecv>>

\* The runtime closes the error channel: a parked receiver wakes with nil.
RuntimeCloseErrs ==
    /\ Subscribed /\ ~errsClosed
    /\ errsClosed' = TRUE
    /\ wake' = IF Parked THEN [src |-> "err", val |-> "nil"] ELSE wake
    /\ UNCHANGED <<mainVars, mapVars, msgs, errs, signalChan, loop, event,
                   httpVars, logs, histVars, envCount, sigRecv>>

\* As RaiseSignal on a signalChan without buffer: a signal raised while the
\* goroutine is not parked in the select is dropped.
RaiseSignal_Unbuffered ==
    /\ Notified /\ nSignals < MaxSignals
    /\ \E sig \in Signals :
         IF Parked
         THEN wake' = [src |-> "sig", val |-> sig] /\ signalChan' = signalChan
         ELSE wake' = wake /\ signalChan' = signalChan
    /\ nSignals' = nSignals + 1
    /\ UNCHANGED <<mainVars, mapVars, msgs, errs, errsClosed, loop, event,
                   httpVars, logs, histVars, nEvents, nErrs, sigRecv>>

\* An interrupt or terminate signal is raised: os/signal sends it without
\* blocking, so it is dropped when the buffer is full.
RaiseSignal ==
    /\ Notified /\ nSignals < MaxSignals
    /\ \E sig \in Signals :
         IF Parked
         THEN wake' = [src |-> "sig", val |-> sig] /\ signalChan' = signalChan
         ELSE /\ wake' = wake
              /\ signalChan' = IF signalChan = <<>> THEN <<sig>> ELSE signalChan
    /\ nSignals' = nSignals + 1
    /\ UNCHANGED <<mainVars, mapVars, msgs, errs, errsClosed, loop, event,
                   httpVars, logs, histVars, nEvents, nErrs, sigRecv>>

\* --------------------------------------------------------------- the loop

MsgReady == msgs # <<>>
ErrReady == errs # <<>> \/ errsClosed
SigReady == signalChan # <<>>

\* As Selects, but the signal case is also taken while the POST is in flight.
Selects_Preempts(src, ready) ==
    /\ Alive
    /\ \/ loop = "select" /\ ready
       \/ loop = "parked" /\ wake.src = src
       \/ loop = "post" /\ src = "sig" /\ ready

\* The select returns with the case of channel src: chosen among the ready
\* cases, or fixed by the hand-off that woke the parked goroutine.
Selects(src, ready) ==
    /\ Alive
    /\ \/ loop = "select" /\ ready
       \/ loop = "parked" /\ wake.src = src

\* select with no case ready: the goroutine parks.
Park ==
    /\ Alive /\ loop = "select"
    /\ ~MsgReady /\ ~ErrReady /\ ~SigReady
    /\ loop' = "parked"
    /\ UNCHANGED <<mainVars, mapVars, chanVars, wake, event, httpVars, logs,
                   histVars, envCount, sigRecv>>

\* handleEvent: classify; drop the event when it has no level, else log it
\* and call notifyDiscord.
handleEvent(ev) ==
    LET lv == getEventLevel(ev.Action) IN
    IF lv = ""
    THEN loop' = "select" /\ level' = level /\ logs' = <<>>
    ELSE /\ level' = lv
         /\ logs' = <<LogLine("Event", lv, 0)>>
         /\ loop' = "notify"

\* A consumed event that is a container event, whose action is in one of the
\* three configured lists, under a non-empty webhook.
Eligible(ev) ==
    /\ ev.Type = ContainerEventType
    /\ ev.Action \in Range(cfg.Error) \cup Range(cfg.Warning) \cup Range(cfg.Info)
    /\ cfg.Webhook # ""

\* handleDockerEventsMsg without the test of the event's type.
handleDockerEventsMsg_NoTypeCheck ==
    /\ Selects("msg", MsgReady)
    /\ LET ev == IF loop = "parked" THEN wake.val ELSE Head(msgs) IN
         /\ event' = ev
         /\ consumed' = consumed + 1
         /\ eligible' = IF Eligible(ev) THEN eligible + 1 ELSE eligible
         /\ handleEvent(ev)
    /\ msgs' = IF loop = "parked" THEN msgs ELSE Tail(msgs)
    /\ wake' = NoWake
    /\ UNCHANGED <<mainVars, mapVars, errs, errsClosed, signalChan, payload,
                   resp, posts, responses, postErrs, closes, envCount, sigRecv>>

\* case event := <-msgs
handleDockerEventsMsg ==
    /\ Selects("msg", MsgReady)
    /\ LET ev == IF loop = "parked" THEN wake.val ELSE Head(msgs) IN
         /\ event' = ev
         /\ consumed' = consumed + 1
         /\ eligible' = IF Eligible(ev) THEN eligible + 1 ELSE eligible
         /\ IF ev.Type = ContainerEventType
            THEN handleEvent(ev)
            ELSE loop' = "select" /\ level' = level /\ logs' = <<>>
    /\ msgs' = IF loop = "parked" THEN msgs ELSE Tail(msgs)
    /\ wake' = NoWake
    /\ UNCHANGED <<mainVars, mapVars, errs, errsClosed, signalChan, payload,
                   resp, posts, responses, postErrs, closes, envCount, sigRecv>>

\* handleDockerEventsErr with a return in the error case.
handleDockerEventsErr_Returns ==
    /\ Selects("err", ErrReady)
    /\ LET err == IF loop = "parked" THEN wake.val
                  ELSE IF errs # <<>> THEN Head(errs) ELSE "nil" IN
         logs' = IF err # "nil"
                 THEN <<LogLine("Error receiving Docker event", err, 0)>>
                 ELSE <<>>
    /\ errs' = IF loop = "parked" \/ errs = <<>> THEN errs ELSE Tail(errs)
    /\ wake' = NoWake
    /\ loop' = "Stopped"
    /\ UNCHANGED <<mainVars, mapVars, msgs, errsClosed, signalChan, event,
                   httpVars, histVars, envCount, sigRecv>>

\* case err := <-errs: logged unless nil (a closed channel yields nil).
handleDockerEventsErr ==
    /\ Selects("err", ErrReady)
    /\ LET err == IF loop = "parked" THEN wake.val
                  ELSE IF errs # <<>> THEN Head(errs) ELSE "nil" IN
         logs' = IF err # "nil"
                 THEN <<LogLine("Error receiving Docker event", err, 0)>>
                 ELSE <<>>
    /\ errs' = IF loop = "parked" \/ errs = <<>> THEN errs ELSE Tail(errs)
    /\ wake' = NoWake
    /\ loop' = "select"
    /\ UNCHANGED <<mainVars, mapVars, msgs, errsClosed, signalChan, event,
                   httpVars, histVars, envCount, sigRecv>>

\* handleDockerEventsSig with a break (which leaves only the select) in place
\* of the return.
handleDockerEventsSig_Breaks ==
    /\ Selects("sig", SigReady)
    /\ LET sig == IF loop = "parked" THEN wake.val ELSE Head(signalChan) IN
         logs' = <<LogLine("Received signal, shutting down", sig, 0)>>
    /\ signalChan' = IF loop = "parked" THEN signalChan ELSE Tail(signalChan)
    /\ wake' = NoWake
    /\ sigRecv' = sigRecv + 1
    /\ loop' = "select"
    /\ UNCHANGED <<mainVars, mapVars, msgs, errs, errsClosed, event, httpVars,
                   histVars, envCount>>

\* case sig := <-signalChan: log and return.
handleDockerEventsSig ==
    /\ Selects("sig", SigReady)
    /\ LET sig == IF loop = "parked" THEN wake.val ELSE Head(signalChan) IN
         logs' = <<LogLine("Received signal, shutting down", sig, 0)>>
    /\ signalChan' = IF loop = "parked" THEN signalChan ELSE Tail(signalChan)
    /\ wake' = NoWake
    /\ sigRecv' = sigRecv + 1
    /\ loop' = "Stopped"
    /\ UNCHANGED <<mainVars, mapVars, msgs, errs, errsClosed, event, httpVars,
                   histVars, envCount>>

\* ---------------------------------------------------------------- delivery

\* notifyDiscord without the test of the webhook URL.
notifyDiscord_NoWebhookCheck(ev, lv, webhookURL) ==
    /\ payload' = Payload(ev, lv)
    /\ posts' = posts + 1
    /\ loop' = "post"
    /\ logs' = logs

\* notifyDiscord started with a go statement: the POST is issued and the
\* caller goes on at once.
notifyDiscord_Async(ev, lv, webhookURL) ==
    /\ payload' = Payload(ev, lv)
    /\ IF webhookURL = ""
       THEN /\ Printf("Missing Discord webhook URL in config", "", 0)
            /\ loop' = "select"
            /\ posts' = posts
       ELSE /\ posts' = posts + 1
            /\ loop' = "select"
            /\ logs' = logs

\* notifyDiscord up to http.Post: build the payload; without a webhook log
\* and return, else issue the POST and block on it.
notifyDiscord(ev, lv, webhookURL) ==
    /\ payload' = Payload(ev, lv)
    /\ IF webhookURL = ""
       THEN /\ Printf("Missing Discord webhook URL in config", "", 0)
            /\ loop' = "select"
            /\ posts' = posts
       ELSE /\ posts' = posts + 1
            /\ loop' = "post"
            /\ logs' = logs

NotifyDiscord ==
    /\ Alive /\ loop = "notify"
    /\ notifyDiscord(event, level, cfg.Webhook)
    /\ UNCHANGED <<mainVars, mapVars, chanVars, wake, event, level, resp,
                   responses, postErrs, closes, histVars, envCount, sigRecv>>

\* PostFails with a retry: the failed POST is issued again.
PostFails_Retries ==
    /\ Alive /\ loop = "post"
    /\ Printf("Failed to send webhook", "", 0)
    /\ postErrs' = postErrs + 1
    /\ posts' = posts + 1
    /\ loop' = "post"
    /\ UNCHANGED <<mainVars, mapVars, chanVars, wake, event, level, payload,
                   resp, responses, closes, histVars, envCount, sigRecv>>

\* http.Post returns an error: log and return.
PostFails ==
    /\ Alive /\ loop = "post"
    /\ Printf("Failed to send webhook", "", 0)
    /\ postErrs' = postErrs + 1
    /\ loop' = "select"
    /\ UNCHANGED <<mainVars, mapVars, chanVars, wake, event, level, payload,
                   resp, posts, responses, closes, histVars, envCount, sigRecv>>

\* The status check with StatusOK as the only success.
StatusLine_Only200(status) ==
    IF status # StatusOK
    THEN LogLine("Unexpected HTTP status", "", status)
    ELSE LogLine("Successfully sent Discord notification", "", 0)

\* The status check of notifyDiscord.
StatusLine(status) ==
    IF status # StatusOK /\ status # StatusNoContent
    THEN LogLine("Unexpected HTTP status", "", status)
    ELSE LogLine("Successfully sent Discord notification", "", 0)

\* http.Post returns a response: its body is open; the status is checked and
\* logged; the deferred close is still to run.
PostResponds ==
    /\ Alive /\ loop = "post"
    /\ \E status \in Statuses :
         /\ resp' = [StatusCode |-> status, Body |-> "open"]
         /\ logs' = Append(logs, StatusLine(status))
    /\ responses' = responses + 1
    /\ loop' = "defer"
    /\ UNCHANGED <<mainVars, mapVars, chanVars, wake, event, level, payload,
                   posts, postErrs, closes, histVars, envCount, sigRecv>>

\* Body.Close() called at the end of the success branch only, not deferred.
DeferBodyClose_OnSuccessOnly ==
    /\ Alive /\ loop = "defer"
    /\ IF resp.StatusCode = StatusOK \/ resp.StatusCode = StatusNoContent
       THEN /\ resp' = [resp EXCEPT !.Body = "closed"]
            /\ closes' = closes + 1
            /\ \E closeErr \in BOOLEAN :
                 IF closeErr
                 THEN Printf("Failed to close response body", "", 0)
                 ELSE UNCHANGED logs
       ELSE UNCHANGED <<resp, closes, logs>>
    /\ loop' = "select"
    /\ UNCHANGED <<mainVars, mapVars, chanVars, wake, event, level, payload,
                   posts, responses, postErrs, histVars, envCount, sigRecv>>

\* The deferred func: Body.Close(), its error logged; notifyDiscord returns.
DeferBodyClose ==
    /\ Alive /\ loop = "defer"
    /\ resp' = [resp EXCEPT !.Body = "closed"]
    /\ closes' = closes + 1
    /\ \E closeErr \in BOOLEAN :
         IF closeErr
         THEN Printf("Failed to close response body", "", 0)
         ELSE UNCHANGED logs
    /\ loop' = "select"
    /\ UNCHANGED <<mainVars, mapVars, chanVars, wake, event, level, payload,
                   posts, responses, postErrs, histVars, envCount, sigRecv>>

\* ----------------------------------------------------------- specification

Next ==
    \/ MainCallLoadConfig
    \/ MainLoadConfig
    \/ MainLoadConfigFails
    \/ MainPopulate
    \/ MainNewClient
    \/ MainNewClientFails
    \/ MainEvents
    \/ MainEventsFails
    \/ MainNotify
    \/ MainGo
    \/ MainListen
    \/ RuntimeEvent
    \/ RuntimeError
    \/ RuntimeCloseErrs
    \/ RaiseSignal
    \/ Park
    \/ handleDockerEventsMsg
    \/ handleDockerEventsErr
    \/ handleDockerEventsSig
    \/ NotifyDiscord
    \/ PostFails
    \/ PostResponds
    \/ DeferBodyClose

Spec == Init /\ [][Next]_vars

\* The steps of the program itself: the Go scheduler runs a runnable goroutine
\* eventually, and an http.Post in flight returns.  Nothing is assumed of the
\* runtime's events, its errors or the signals.
MainStep ==
    \/ MainCallLoadConfig \/ MainLoadConfig \/ MainLoadConfigFails
    \/ MainPopulate \/ MainNewClient \/ MainNewClientFails \/ MainEvents
    \/ MainEventsFails \/ MainNotify \/ MainGo \/ MainListen

LoopStep ==
    \/ Park \/ handleDockerEventsMsg \/ handleDockerEventsErr
    \/ handleDockerEventsSig \/ NotifyDiscord \/ PostFails \/ PostResponds
    \/ DeferBodyClose

FairSpec == Spec /\ WF_vars(MainStep) /\ WF_vars(LoopStep)

\* The select chooses among its ready cases at random: a case that is ready
\* again and again is chosen in the end.
FairSelectSpec == FairSpec /\ SF_vars(handleDockerEventsSig)

\* ------------------------------------------------------------------ claims

\* The loop is Running from the go statement until it returns.
Running == loop \in {"select", "parked", "notify", "post", "defer"}
Stopped == loop = "Stopped"

\* The loop is at the multi-source wait point.
AtWaitPoint == loop \in {"select", "parked"}

\* C1: the loop leaves Running only by consuming a termination signal: when
\* it is Stopped it has received a signal, and every step that takes it out
\* of Running is the signal case (it receives one signal, logs it, stops);
\* no event, error report or delivery outcome ends it or the process.
C1_StopsOnlyBySignal ==
    /\ [](Stopped => sigRecv = 1)
    /\ [](Running => Alive /\ sigRecv = 0)
    /\ [][Running /\ ~Running'
            => /\ Stopped'
               /\ AtWaitPoint
               /\ sigRecv' = sigRecv + 1
               /\ logs'[1].msg = "Received signal, shutting down"
               /\ consumed' = consumed]_vars

\* The loop has stopped on a signal after events, an error report and a
\* failed delivery that did not stop it.
C1_Witness ==
    /\ Stopped /\ sigRecv = 1
    /\ consumed >= 2 /\ nErrs >= 1 /\ errs = <<>>
    /\ responses >= 1 /\ resp.StatusCode = 500

\* C2: a signal raised while the loop is blocked at the wait point is handed
\* to it; the signal case can then run, and the next step the loop takes is
\* the transition to Stopped, whatever arrives in between.
C2_SignalWhileBlockedStops ==
    /\ [](loop = "parked" /\ wake.src = "sig" => ENABLED handleDockerEventsSig)
    /\ [][(Parked /\ nSignals' # nSignals
             => loop' = "parked" /\ wake'.src = "sig")
          /\ (loop = "parked" /\ wake.src = "sig"
                => \/ Stopped' /\ sigRecv' = sigRecv + 1
                   \/ loop' = loop /\ wake' = wake /\ sigRecv' = sigRecv)]_vars

\* The blocked loop has been handed a signal, and an event has arrived after
\* it.
C2_Witness ==
    /\ loop = "parked" /\ wake.src = "sig"
    /\ msgs # <<>>

\* C3: once the loop has stopped on a signal, the process exits with status 0.
C3_CleanExitAfterSignal ==
    Stopped ~> (procState = "exited" /\ exitCode = 0)

\* inSlice: the action is an element of the list.  Listed: it is in one of the
\* three configured lists.
inSlice(a, list) == \E i \in DOMAIN list : list[i] = a
Listed(a) == inSlice(a, cfg.Error) \/ inSlice(a, cfg.Warning) \/ inSlice(a, cfg.Info)

\* C4: at most one POST per consumed event and no retry: the POSTs issued
\* never exceed the consumed events that are container events with a listed
\* action under a non-empty webhook, and equal their number whenever the loop
\* is not between consuming such an event and issuing its POST; a POST is
\* issued only by notifyDiscord, one at a time, for the event just consumed.
C4_AtMostOncePost ==
    /\ [](posts <= eligible /\ eligible <= consumed)
    /\ [](loop # "notify" => posts = eligible)
    /\ [](loop = "notify" => posts + (IF Eligible(event) THEN 1 ELSE 0) = eligible)
    /\ [][posts' # posts
            => /\ posts' = posts + 1
               /\ loop = "notify" /\ loop' = "post"
               /\ Eligible(event) /\ consumed' = consumed]_vars

\* A POST failed in transport, the loop is back at the wait point, and the
\* event was not posted again; an earlier event was posted once too.
C4_Witness ==
    /\ loop = "select"
    /\ posts = 2 /\ eligible = 2 /\ postErrs >= 1
    /\ Len(logs) = 2 /\ logs[2].msg = "Failed to send webhook"

\* C5: consuming a non-container event, or a container event whose action is
\* in none of the three lists, takes the loop straight back to the wait
\* point: no level is set, nothing is logged, no payload is built and no POST
\* is issued.
C5_DroppedEvents ==
    [][consumed' # consumed
         /\ (event'.Type # ContainerEventType \/ ~Listed(event'.Action))
         => /\ loop' = "select"
            /\ level' = level /\ payload' = payload /\ posts' = posts
            /\ logs' = <<>>]_vars

\* A network event with action "die" has been dropped while "die" is in the
\* error list and a webhook is configured.
C5_Witness ==
    /\ loop = "select" /\ consumed = 1 /\ posts = 0 /\ payload = NoPayload
    /\ event.Type = "network" /\ event.Action = "die"
    /\ inSlice("die", cfg.Error) /\ cfg.Webhook # ""

\* ------------------------------------------------- classification, any config

\* Longest action list of a config.json.
MaxListLen == 2

ActionLists == UNION {[1..n -> ActionNames] : n \in 0..MaxListLen}

\* Every config whose lists hold up to MaxListLen of the action names, in any
\* order, with repeats and overlaps.
AnyConfig ==
    [Webhook : {defaultConfig.Webhook},
     Error : ActionLists, Warning : ActionLists, Info : ActionLists]

\* main has loaded some config and is about to build the maps.
ClassifyInit ==
    /\ file = AbsentFile
    /\ mainErr = ""
    /\ subscription = "none"
    /\ mainPc = "populate"
    /\ procState = "alive"
    /\ exitCode = 0
    /\ cfg \in AnyConfig
    /\ errorActions = {}
    /\ warnActions = {}
    /\ infoActions = {}
    /\ msgs = <<>>
    /\ errs = <<>>
    /\ errsClosed = FALSE
    /\ signalChan = <<>>
    /\ loop = "notStarted"
    /\ wake = NoWake
    /\ event = NoEvent
    /\ level = ""
    /\ payload = NoPayload
    /\ resp = NoResponse
    /\ logs = <<>>
    /\ posts = 0
    /\ responses = 0
    /\ postErrs = 0
    /\ closes = 0
    /\ consumed = 0
    /\ eligible = 0
    /\ nEvents = 0
    /\ nErrs = 0
    /\ nSignals = 0
    /\ sigRecv = 0

\* handleEvent applied to one container event, once the maps are built.
ClassifyEvent ==
    /\ mainPc = "newClient" /\ consumed = 0
    /\ \E a \in ActionNames :
         LET ev == [Type |-> ContainerEventType, Action |-> a,
                    Time |-> 1700000000, Name |-> "web-1"] IN
         /\ event' = ev
         /\ handleEvent(ev)
    /\ consumed' = 1
    /\ UNCHANGED <<mainVars, mapVars, chanVars, wake, payload, resp, posts,
                   responses, postErrs, closes, eligible, envCount, sigRecv>>

ClassifyNext == MainPopulate \/ ClassifyEvent

ClassifySpec == ClassifyInit /\ [][ClassifyNext]_vars

\* The level the lists of a config give an action: error first, then warning,
\* then info, else none.
ListLevel(a, c) ==
    IF inSlice(a, c.Error) THEN "error"
    ELSE IF inSlice(a, c.Warning) THEN "warning"
    ELSE IF inSlice(a, c.Info) THEN "info"
    ELSE ""

\* C6: for every config and action, the level handleEvent gets from
\* getEventLevel is one of error, warning, info, none: error when the action
\* is in the error list, else warning when in the warning list, else info when
\* in the info list, else none; the event goes on to delivery exactly when
\* the level is not none.
C6_ClassifyFirstMatch ==
    consumed = 1 =>
        /\ level \in {"error", "warning", "info", ""}
        /\ level = ListLevel(event.Action, cfg)
        /\ (level = "") = (loop = "select")
        /\ (level # "") = (loop = "notify")

\* "die" is twice in the error list and also in the warning and info lists,
\* and was classified error.
C6_Witness ==
    /\ consumed = 1 /\ event.Action = "die" /\ level = "error"
    /\ cfg.Error = <<"die", "die">>
    /\ inSlice("die", cfg.Warning) /\ inSlice("die", cfg.Info)

\* ------------------------------------------------------ claims on delivery

MissingWebhookLine == LogLine("Missing Discord webhook URL in config", "", 0)

\* C7: under an empty webhook no POST is ever issued or in flight; the
\* delivery of a classified event ends at once with the missing-webhook log
\* line, and the loop is back at the wait point.
C7_EmptyWebhookNoPost ==
    /\ [](cfg.Webhook = "" => posts = 0 /\ loop \notin {"post", "defer"})
    /\ [][loop = "notify" /\ cfg.Webhook = "" /\ loop' # loop
            => /\ loop' = "select"
               /\ logs' = Append(logs, MissingWebhookLine)
               /\ posts' = posts
               /\ procState' = "alive"]_vars

\* Under an empty webhook a classified container event has been handled: the
\* missing webhook was logged, nothing was posted.
C7_Witness ==
    /\ cfg.Webhook = "" /\ loop = "select" /\ posts = 0
    /\ Len(logs) = 2 /\ logs[1].msg = "Event" /\ logs[2] = MissingWebhookLine

OutcomeMsgs ==
    {"Successfully sent Discord notification", "Unexpected HTTP status",
     "Failed to send webhook"}

\* The log lines that report the outcome of a delivery attempt.
Outcomes(lg) == {i \in DOMAIN lg : lg[i].msg \in OutcomeMsgs}

\* C8: each delivery attempt reports exactly one outcome: success exactly
\* when the status is 200 or 204, else the unexpected status with its code,
\* and a network failure when http.Post returned an error; after any of them
\* the process is alive and the loop goes back to the wait point.
C8_DeliveryOutcome ==
    /\ [](loop = "post" => Outcomes(logs) = {})
    /\ [](loop = "defer" =>
            /\ Cardinality(Outcomes(logs)) = 1
            /\ \A i \in Outcomes(logs) :
                 logs[i] =
                   IF resp.StatusCode \in {200, 204}
                   THEN LogLine("Successfully sent Discord notification", "", 0)
                   ELSE LogLine("Unexpected HTTP status", "", resp.StatusCode))
    /\ [][loop = "post" /\ loop' # "post"
            => /\ procState' = "alive"
               /\ Cardinality(Outcomes(logs')) = 1
               /\ loop' \in {"select", "defer"}
               /\ (loop' = "select"
                     => \A i \in Outcomes(logs') :
                          logs'[i].msg = "Failed to send webhook")
               /\ (loop' = "defer" => responses' = responses + 1)]_vars
    /\ [][loop = "defer" /\ loop' # "defer"
            => /\ procState' = "alive"
               /\ loop' = "select"
               /\ Outcomes(logs') = Outcomes(logs)]_vars

\* A delivery answered 204 was reported a success, after one answered 500 was
\* reported with its status.
C8_Witness ==
    /\ loop = "defer" /\ responses = 2 /\ resp.StatusCode = 204
    /\ \E i \in Outcomes(logs) :
         logs[i].msg = "Successfully sent Discord notification"

CloseFailedLine == LogLine("Failed to close response body", "", 0)

\* C9: the body of every response is closed exactly once before the loop is
\* back at the wait point: a body is open only between the response and the
\* deferred close, and outside it as many bodies were closed as responses
\* received; a failed close is logged after the outcome, which it leaves as
\* reported, and the loop goes back to the wait point.
C9_BodyClosed ==
    /\ [](loop # "defer" => resp.Body # "open" /\ closes = responses)
    /\ [](loop = "defer" => resp.Body = "open" /\ closes + 1 = responses)
    /\ [][loop = "defer" /\ loop' # "defer"
            => /\ loop' = "select"
               /\ procState' = "alive"
               /\ closes' = closes + 1
               /\ resp' = [resp EXCEPT !.Body = "closed"]
               /\ logs' \in {logs, Append(logs, CloseFailedLine)}]_vars

\* A response with status 500 was received and its body closed; the close
\* failed and was logged after the status.
C9_Witness ==
    /\ loop = "select" /\ closes = 1 /\ responses = 1
    /\ resp = [StatusCode |-> 500, Body |-> "closed"]
    /\ Len(logs) = 3
    /\ logs[2] = LogLine("Unexpected HTTP status", "", 500)
    /\ logs[3] = CloseFailedLine

IsPrefix(s, t) == Len(s) <= Len(t) /\ \A i \in DOMAIN s : s[i] = t[i]

\* The loop is inside the pipeline of one event.
InPipeline == loop \in {"notify", "post", "defer"}

\* C10: at most one delivery is in flight, and only while the loop is
\* blocked in http.Post: the POSTs issued are those that returned, plus one
\* exactly when the loop is in the call; while the loop is inside a pipeline
\* it receives nothing: no event, error report or signal is taken from its
\* channel, whatever arrives meanwhile.
C10_Serialised ==
    /\ [](posts = responses + postErrs + (IF loop = "post" THEN 1 ELSE 0))
    /\ [][InPipeline
            => /\ consumed' = consumed /\ sigRecv' = sigRecv /\ wake' = wake
               /\ event' = event
               /\ IsPrefix(msgs, msgs') /\ IsPrefix(errs, errs')
               /\ IsPrefix(signalChan, signalChan')]_vars

\* A delivery is in flight while an event, an error report and a signal wait.
C10_Witness ==
    /\ loop = "post"
    /\ msgs # <<>> /\ errs # <<>> /\ signalChan # <<>>


\* ------------------------------------------------------- claims on startup

\* C11: a failure to set up the event subscription is fatal: once the
\* subscription has failed the loop is never started, so it consumes nothing,
\* delivers nothing and waits for no signal.
C11_SubscriptionFailureFatal ==
    subscription = "failed" => loop = "notStarted"


\* Nothing of the program beyond startup has happened: no subscription, no
\* loop, no event consumed, no delivery.
NothingStarted ==
    /\ subscription = "none"
    /\ loop = "notStarted"
    /\ consumed = 0
    /\ posts = 0

ExitedNonZero == procState = "exited" /\ exitCode = 1

ClientFailedLogged ==
    \E i \in DOMAIN logs : logs[i].msg = "Failed to create Docker client"

\* C12: startup errors are fatal. When loadConfig has failed (an I/O failure
\* or a file that is not JSON) or the client cannot be constructed, the
\* process ends with status 1 and stays so: no subscription is made, the loop
\* never runs, no rule set is built from the failed config (which is nil) and
\* nothing is delivered. A malformed file always makes loadConfig fail, and
\* the only step main can take after a failed load is the fatal exit.
C12_StartupErrorsFatal ==
    /\ [](mainErr # "" /\ mainPc # "checkConfig" =>
            /\ ExitedNonZero
            /\ NothingStarted
            /\ cfg = NilConfig
            /\ errorActions = {} /\ warnActions = {} /\ infoActions = {})
    /\ [](mainErr # "" => NothingStarted /\ cfg = NilConfig)
    /\ [](ClientFailedLogged => ExitedNonZero /\ NothingStarted)
    /\ [](file.kind = "malformed" /\ mainPc # "loadConfig" => mainErr # "")
    /\ [](mainErr # "" /\ mainPc = "checkConfig" =>
            ENABLED MainLoadConfigFails /\ ~ENABLED MainLoadConfig)
    /\ [][mainErr # "" /\ mainPc = "checkConfig" => ExitedNonZero']_vars
    /\ [][procState = "exited" => UNCHANGED vars]_vars

C12_Witness ==
    /\ ExitedNonZero
    /\ file.kind = "malformed"
    /\ mainErr = "invalid JSON in config file"
    /\ logs = <<LogLine("Failed to load config", "", 0)>>


\* ----------------------------------------------------- loadConfig, any file

\* config.json before the first call: absent, not JSON, or any config.
ConfigFiles == {AbsentFile, MalformedFile} \cup {JsonFile(c) : c \in AnyConfig}

ConfigInit ==
    /\ file \in ConfigFiles
    /\ mainErr = ""
    /\ subscription = "none"
    /\ mainPc = "loadConfig"
    /\ procState = "alive"
    /\ exitCode = 0
    /\ cfg = NilConfig
    /\ errorActions = {}
    /\ warnActions = {}
    /\ infoActions = {}
    /\ msgs = <<>>
    /\ errs = <<>>
    /\ errsClosed = FALSE
    /\ signalChan = <<>>
    /\ loop = "notStarted"
    /\ wake = NoWake
    /\ event = NoEvent
    /\ level = ""
    /\ payload = NoPayload
    /\ resp = NoResponse
    /\ logs = <<>>
    /\ posts = 0
    /\ responses = 0
    /\ postErrs = 0
    /\ closes = 0
    /\ consumed = 0
    /\ eligible = 0
    /\ nEvents = 0
    /\ nErrs = 0
    /\ nSignals = 0
    /\ sigRecv = 0

\* One call of loadConfig("config.json"); logs holds the lines of that call.
CallLoadConfig ==
    /\ \E io \in IOOutcomes :
         LET r == loadConfig(file, io) IN
         /\ cfg' = r.cfg
         /\ mainErr' = r.err
         /\ file' = r.file
         /\ logs' = r.logs
    /\ UNCHANGED <<subscription, mainPc, procState, exitCode, mapVars,
                   chanVars, loop, wake, event, httpVars, histVars, envCount,
                   sigRecv>>

ConfigNext == CallLoadConfig

ConfigSpec == ConfigInit /\ [][ConfigNext]_vars

\* The default structure, as the file holds it.
DefaultJson ==
    [webhook |-> "discord-webhook-url", error |-> <<"die">>,
     warning |-> <<"stop">>, info |-> <<"start">>]

\* C13: loadConfig on a nonexistent path creates a file holding exactly the
\* default structure and returns the default; on an existing valid file it
\* returns the parsed contents and leaves the file as it is; on an existing
\* file that is not JSON it fails with an error and leaves the file as it is.
\* Over any sequence of calls, with or without I/O failures, a file that
\* exists is never changed.
C13_LoadConfigFrame ==
    /\ [](LET f == file
              r == loadConfig(f, "ok") IN
            /\ f.kind = "absent" =>
                 /\ r.file = [kind |-> "json", json |-> DefaultJson]
                 /\ Marshal(r.cfg) = DefaultJson
                 /\ r.err = ""
            /\ f.kind = "json" =>
                 /\ Marshal(r.cfg) = f.json
                 /\ r.file = f
                 /\ r.err = ""
            /\ f.kind = "malformed" =>
                 /\ r.err = "invalid JSON in config file"
                 /\ r.cfg = NilConfig
                 /\ r.file = f)
    /\ [][CallLoadConfig =>
            /\ file.kind # "absent" => file' = file
            /\ file.kind = "malformed" => mainErr' # "" /\ cfg' = NilConfig
            /\ file.kind = "json" /\ mainErr' = "" => Marshal(cfg') = file.json
            /\ file.kind = "absent" /\ mainErr' = "" =>
                 /\ file' = [kind |-> "json", json |-> DefaultJson]
                 /\ Marshal(cfg') = DefaultJson]_vars
    /\ [][file.kind # "absent" => file' = file]_vars

C13_Witness ==
    /\ file = [kind |-> "json", json |-> DefaultJson]
    /\ cfg = defaultConfig
    /\ mainErr = ""
    /\ logs = <<LogLine("Config file not found, creating default config.json", "", 0)>>


\* ------------------------------------------------------ claims on rendering

\* C14: every payload built for delivery carries the colour and title of the
\* level of its action under the config: red 16711680 exactly when the action
\* is in the error list, yellow 16776960 exactly when it is in the warning
\* list and not in the error list, green 3066993 otherwise; the title ends with
\* the level in upper case, which is never the empty level; the level is the
\* one its action classifies to.
C14_ColourAndTitle ==
    [](payload # NoPayload =>
         LET a == payload.action
             isErr == inSlice(a, cfg.Error)
             isWarn == inSlice(a, cfg.Warning) /\ ~isErr IN
         /\ payload.color \in {16711680, 16776960, 3066993}
         /\ payload.color = 16711680 <=> isErr
         /\ payload.color = 16776960 <=> isWarn
         /\ payload.color = 3066993 <=> ~isErr /\ ~isWarn
         /\ Len(payload.title) = 2
         /\ payload.title[1] = "Docker Event Notification - "
         /\ payload.title[2] \in {"ERROR", "WARNING", "INFO"}
         /\ payload.title[2] = "ERROR" <=> isErr
         /\ payload.title[2] = "WARNING" <=> isWarn
         /\ Listed(a)
         /\ (loop \in {"post", "defer"} =>
               level = ListLevel(a, cfg) /\ level # ""))

\* The default config and a container event "die" of web-1 at 1700000000: the
\* payload in flight is the error one, titled ERROR, in red.
C14_Witness ==
    /\ cfg = defaultConfig /\ loop = "post"
    /\ level = "error"
    /\ payload.action = "die" /\ payload.name = "web-1"
    /\ payload.time = 1700000000
    /\ payload.title = <<"Docker Event Notification - ", "ERROR">>
    /\ payload.color = 16711680


\* ---------------------------------------------------- claims on cancellation

\* C15: cancellation takes effect only at the wait point. No step taken while
\* a pipeline invocation is in progress ends in Stopped; a signal raised
\* during it changes nothing of the invocation; while the POST is in flight
\* with a signal pending the signal case cannot be taken and the POST can
\* still respond or fail; the loop becomes Stopped only from the wait point,
\* with no response body left open.
C15_StopOnlyAtWaitPoint ==
    /\ [][InPipeline => loop' # "Stopped"]_vars
    /\ [][InPipeline /\ nSignals' # nSignals =>
            UNCHANGED <<loop, event, httpVars, logs, histVars>>]_vars
    /\ [](InPipeline /\ SigReady =>
            /\ ~ENABLED handleDockerEventsSig
            /\ loop = "post" => ENABLED PostResponds /\ ENABLED PostFails)
    /\ [][loop # "Stopped" /\ loop' = "Stopped" =>
            /\ AtWaitPoint
            /\ resp.Body # "open"
            /\ posts = responses + postErrs]_vars

\* A signal is pending and the delivery went on to its response all the same.
C15_Witness ==
    /\ loop = "defer" /\ SigReady
    /\ resp.Body = "open" /\ responses = 1

\* A signal is waiting for the loop: in the buffer of signalChan, or handed to
\* the parked goroutine.
SigPending == signalChan # <<>> \/ wake.src = "sig"

\* C16: a termination signal is never lost and is honoured in the end. A
\* signal raised while the loop is Running, at the wait point or busy in a
\* delivery, is pending afterwards; a pending signal stays pending until the
\* loop takes it; and when deliveries complete and the select is fair to its
\* ready cases, a Running loop with a pending signal reaches Stopped, whatever
\* events and errors arrive meanwhile.
C16_SignalHonoured ==
    /\ [][Running /\ nSignals' # nSignals => SigPending']_vars
    /\ [][SigPending /\ ~SigPending' => loop' = "Stopped"]_vars
    /\ (Running /\ SigPending) ~> Stopped

\* Stopped on the signal after two events were consumed, one of them
\* delivered, and the error channel was closed.
C16_Witness ==
    /\ Stopped /\ sigRecv = 1
    /\ consumed = 2 /\ posts >= 1 /\ errsClosed

\* --------------------------------------------------- claims on the wait point

\* The select returns with one of its three cases: one iteration of the loop.
LoopIteration ==
    handleDockerEventsMsg \/ handleDockerEventsErr \/ handleDockerEventsSig

\* C17: no polling. In every state in which the loop is at the wait point and
\* none of its three sources holds anything to deliver (no event record, no
\* error report, no signal, in a channel or handed over), the loop can take no
\* iteration; this in every state of the sources, the error channel closed or
\* not.
C17_NoPolling ==
    (/\ Alive /\ AtWaitPoint
     /\ msgs = <<>> /\ errs = <<>> /\ signalChan = <<>>
     /\ wake.src = "none")
    => ~ENABLED LoopIteration

\* C18: every value the loop receives from the error channel is logged and
\* leaves it Running: the iteration of the error case writes exactly one log
\* record, the error line, classifies, renders and delivers nothing, and ends
\* at the wait point.
C18_ErrorArrivalLogged ==
    [][handleDockerEventsErr =>
         /\ Len(logs') = 1
         /\ logs'[1].msg = "Error receiving Docker event"
         /\ loop' = "select"
         /\ UNCHANGED <<event, httpVars, histVars, mapVars, cfg>>]_vars

\* ------------------------------------------------ the variant with list scans

\* The avatar_url and icon_url of the variant's payload.
ListAvatarURL == "https://i.imgur.com/zlREvEQ.png"

\* The variant's loop passes an event to handleEvent, and handleEvent to
\* notifyDiscord: a container event whose action the lists of cfg classify.
ListHandles(ev, c) ==
    /\ ev.Type = ContainerEventType
    /\ ListLevel(ev.Action, c) # ""

\* The payload the variant's notifyDiscord builds.
ListPayload(ev, c) ==
    LET lv == ListLevel(ev.Action, c) IN
    [title  |-> <<"Docker Event Notification - ", ToUpper(lv)>>,
     name   |-> ev.Name,
     action |-> ev.Action,
     time   |-> ev.Time,
     color  |-> getColor(lv),
     avatar |-> ListAvatarURL]

\* C19: the program with lookup maps and the variant with list scans differ
\* only in branding. Once the maps are built, getEventLevel on the maps gives
\* every action the level the variant's list scan gives it under the same
\* config; every event the loop consumes is dropped or sent on to delivery,
\* with the same level and log line, exactly as the variant does; and every
\* payload built is the variant's payload but for the avatar, which differs.
C19_VariantsAgree ==
    /\ [](loop # "notStarted" =>
            \A a \in ActionNames : getEventLevel(a) = ListLevel(a, cfg))
    /\ [][handleDockerEventsMsg =>
            IF ListHandles(event', cfg)
            THEN /\ level' = ListLevel(event'.Action, cfg)
                 /\ logs' = <<LogLine("Event", ListLevel(event'.Action, cfg), 0)>>
                 /\ loop' = "notify"
            ELSE /\ level' = level
                 /\ logs' = <<>>
                 /\ loop' = "select"]_vars
    /\ [][NotifyDiscord =>
            /\ [payload' EXCEPT !.avatar = ListAvatarURL] = ListPayload(event, cfg)
            /\ payload'.avatar # ListAvatarURL
            /\ (loop' = "post") = (cfg.Webhook # "")]_vars

\* Under the config with overlapping lists "stop", which is in the warning and
\* in the info list, is in delivery as a warning.
C19_Witness ==
    /\ loop = "post" /\ cfg.Error = <<"die", "die">>
    /\ event.Action = "stop" /\ level = "warning"
    /\ payload.color = 16776960 /\ payload.avatar = AvatarURL

\* ---------------------------------------------------- claims on the rule sets

\* C20: the maps are built once and only read afterwards. In every state from
\* the start of the loop on, each of the three maps holds exactly the members
\* of its list in cfg; the maps change only in main's call of
\* populateActionMaps, before the loop exists; and no step taken once the loop
\* has started, whichever case or delivery step it is, changes the maps or cfg.
C20_RuleSetsReadOnly ==
    /\ [](loop # "notStarted" =>
            /\ errorActions = Range(cfg.Error)
            /\ warnActions = Range(cfg.Warning)
            /\ infoActions = Range(cfg.Info))
    /\ [][mapVars' # mapVars =>
            mainPc = "populate" /\ mainPc' = "newClient" /\ loop = "notStarted"]_vars
    /\ [][loop # "notStarted" => UNCHANGED <<mapVars, cfg>>]_vars
    /\ [][LoopStep => UNCHANGED <<mapVars, cfg>>]_vars

\* The loop has handled two events under the config with overlapping lists;
\* the maps are the sets of the lists' members.
C20_Witness ==
    /\ loop = "select" /\ consumed = 2
    /\ cfg.Error = <<"die", "die">> /\ errorActions = {"die"}
    /\ warnActions = {"die", "stop"} /\ infoActions = {"stop", "die"}

====
